---- MODULE Spec2Model ----
(***************************************************************************)
(* Model of stx's crash diagnostics (src/src/backtrace.cc):                *)
(*   backtrace::handle_signal  - the signal router,                        *)
(*   signal_handler            - the installed fault handler,              *)
(*   print_backtrace           - the crash reporter,                       *)
(*   backtrace::trace          - the frame sequence producer.              *)
(* The process-wide signal dispositions, each thread's position in the     *)
(* fault handler, the stack-local state of every trace invocation and the  *)
(* text written to stderr are the state.                                   *)
(***************************************************************************)
EXTENDS Integers, Sequences, FiniteSets, TLC

(***************************************************************************)
(* Bounds of the model.                                                    *)
(***************************************************************************)
\* Capacity of the ips/sps arrays of trace(). The value is set by a header
\* that is not part of the modelled sources; the model scales it down.
STX_MAX_STACK_FRAME_DEPTH == 3

\* How many call frames beyond the capacity a stack may hold above trace().
ExtraCallDepth == 1

\* Capacity of the symbol buffer of trace(), terminating NUL included. Set
\* by the same header; scaled down.
STX_SYMBOL_BUFFER_SIZE == 3

(***************************************************************************)
(* Signals (<csignal>) and handlers.                                       *)
(***************************************************************************)
SIGINT == 2
SIGILL == 4
SIGFPE == 8
SIGSEGV == 11
SIGTERM == 15

\* The signal numbers handle_signal is called with.
Signals == {SIGINT, SIGILL, SIGFPE, SIGSEGV, SIGTERM}

\* The signals handle_signal accepts.
Supported == {SIGSEGV, SIGILL, SIGFPE}

SIG_DFL == "SIG_DFL"
SIG_IGN == "SIG_IGN"
SIG_ERR == "SIG_ERR"
\* The address of the internal handler, signal_handler.
SignalHandler == "signal_handler"

Handlers == {SIG_DFL, SIG_IGN, SignalHandler}

Threads == {"main", "worker"}
Levels == {"user", "handler"}

(***************************************************************************)
(* Option and Result values.                                               *)
(***************************************************************************)
None == [some |-> FALSE]
Some(v) == [some |-> TRUE, val |-> v]

Ok(v) == [ok |-> TRUE, value |-> v]
Err(e) == [ok |-> FALSE, error |-> e]
NoResult == [ok |-> FALSE, error |-> "none"]

Min(a, b) == IF a > b THEN b ELSE a

VARIABLES
  disposition,  \* the process's handler of every signal
  sigcall,      \* the last handle_signal call: its argument, its return
                \* value and the dispositions it found
  proc,         \* "running", or "aborted" once std::abort was called
  hpc,          \* per thread: its position in signal_handler
  hsig,         \* per thread: the argument of its signal_handler call
  err,          \* per thread: what it wrote to stderr, in order
  tr,           \* per thread and level: the locals of its trace() call
  srcloc        \* the last SourceLocation::current call: the builtins the
                \* compiler has, the call site, the arguments, the result

vars == <<disposition, sigcall, proc, hpc, hsig, err, tr, srcloc>>

(***************************************************************************)
(* std::signal(sig, handler): the previous handler and the dispositions    *)
(* afterwards. A rejected registration returns SIG_ERR and changes         *)
(* nothing.                                                                *)
(***************************************************************************)
std_signal(d, sig, handler, rejected) ==
  IF rejected
    THEN [ret |-> SIG_ERR, disp |-> d]
    ELSE [ret |-> d[sig], disp |-> [d EXCEPT ![sig] = handler]]

(***************************************************************************)
(* backtrace::handle_signal(signal), on dispositions d, the OS rejecting   *)
(* the registration or not: the Result returned and the dispositions       *)
(* afterwards.                                                             *)
(***************************************************************************)
\* Mutant: the guard on the supported signals is missing.
handle_signal_unguarded(d, signal, rejected) ==
  LET r == std_signal(d, signal, SignalHandler, rejected) IN
  IF r.ret = SIG_ERR
    THEN [ret |-> Err("SigErr"), disp |-> r.disp]
    ELSE [ret |-> Ok(r.ret), disp |-> r.disp]

\* Mutant: the previous handler is not returned, SIG_DFL is.
handle_signal_default(d, signal, rejected) ==
  IF signal # SIGSEGV /\ signal # SIGILL /\ signal # SIGFPE
    THEN [ret |-> Err("Unknown"), disp |-> d]
    ELSE LET r == std_signal(d, signal, SignalHandler, rejected) IN
         IF r.ret = SIG_ERR
           THEN [ret |-> Err("SigErr"), disp |-> r.disp]
           ELSE [ret |-> Ok(SIG_DFL), disp |-> r.disp]

\* Mutant: SIG_ERR is not checked for.
handle_signal_unchecked(d, signal, rejected) ==
  IF signal # SIGSEGV /\ signal # SIGILL /\ signal # SIGFPE
    THEN [ret |-> Err("Unknown"), disp |-> d]
    ELSE LET r == std_signal(d, signal, SignalHandler, rejected) IN
         [ret |-> Ok(r.ret), disp |-> r.disp]

\* Mutant: SIGFPE is left out of the supported set.
handle_signal_nofpe(d, signal, rejected) ==
  IF signal # SIGSEGV /\ signal # SIGILL
    THEN [ret |-> Err("Unknown"), disp |-> d]
    ELSE LET r == std_signal(d, signal, SignalHandler, rejected) IN
         IF r.ret = SIG_ERR
           THEN [ret |-> Err("SigErr"), disp |-> r.disp]
           ELSE [ret |-> Ok(r.ret), disp |-> r.disp]

\* Mutant: a rejected registration puts the signal back to its default.
handle_signal_rollback(d, signal, rejected) ==
  IF signal # SIGSEGV /\ signal # SIGILL /\ signal # SIGFPE
    THEN [ret |-> Err("Unknown"), disp |-> d]
    ELSE LET r == std_signal(d, signal, SignalHandler, rejected) IN
         IF r.ret = SIG_ERR
           THEN [ret |-> Err("SigErr"),
                 disp |-> std_signal(r.disp, signal, SIG_DFL, FALSE).disp]
           ELSE [ret |-> Ok(r.ret), disp |-> r.disp]

\* Mutant: the handler is installed for the three signals at once.
handle_signal_all(d, signal, rejected) ==
  IF signal # SIGSEGV /\ signal # SIGILL /\ signal # SIGFPE
    THEN [ret |-> Err("Unknown"), disp |-> d]
    ELSE LET r == std_signal(d, signal, SignalHandler, rejected) IN
         IF r.ret = SIG_ERR
           THEN [ret |-> Err("SigErr"), disp |-> r.disp]
           ELSE [ret |-> Ok(r.ret),
                 disp |-> [s \in DOMAIN d |->
                             IF s \in {SIGSEGV, SIGILL, SIGFPE}
                               THEN SignalHandler ELSE d[s]]]

handle_signal(d, signal, rejected) ==
  IF signal # SIGSEGV /\ signal # SIGILL /\ signal # SIGFPE
    THEN [ret |-> Err("Unknown"), disp |-> d]
    ELSE LET r == std_signal(d, signal, SignalHandler, rejected) IN
         IF r.ret = SIG_ERR
           THEN [ret |-> Err("SigErr"), disp |-> r.disp]
           ELSE [ret |-> Ok(r.ret), disp |-> r.disp]

(***************************************************************************)
(* The call stack a trace walks. A thread calls trace() with `cd` frames   *)
(* above it; captured index j (0: the caller of trace) is the frame at     *)
(* level cd - j, level 1 being the outermost frame.                        *)
(***************************************************************************)
MaxCallDepth == STX_MAX_STACK_FRAME_DEPTH + ExtraCallDepth

\* Return address and stack pointer of the frame at `level` of thread t.
IpOf(t, level) == (IF t = "main" THEN 256 ELSE 512) + 16 * level
SpOf(t, level) == (IF t = "main" THEN 8192 ELSE 4096) - 32 * level

NUL == "NUL"

\* The symbol table of the program image: the name at an address.
NameOf(ip) ==
  LET level == (ip % 256) \div 16
      fn == CASE level = 1 -> <<"m", "a", "i", "n">>
              [] level = 2 -> <<"f", "o", "o">>
              [] level = 3 -> <<"b", "a", "r">>
              [] OTHER     -> <<"q", "u", "x">>
  IN IF ip < 512 THEN fn ELSE <<"w">> \o fn

\* An array of n elements, all x (indexed from 1 here, from 0 in the code).
Filled(n, x) == [j \in 1..n |-> x]

(***************************************************************************)
(* absl::GetStackTrace / absl::GetStackFrames with skip_count = 1: the     *)
(* first n entries of the result array are written, n being the depth the  *)
(* walk reports, at most max_depth and at most the frames there are.       *)
(***************************************************************************)
GetStackTrace(t, cd, max_depth, n) ==
  [j \in 1..max_depth |-> IF j <= n THEN IpOf(t, cd - (j - 1)) ELSE 0]

GetStackFrames(t, cd, max_depth, n) ==
  [j \in 1..max_depth |-> IF j <= n THEN SpOf(t, cd - (j - 1)) ELSE 0]

\* The depths a walk of a stack of cd frames may report.
WalkDepths(cd, max_depth) == 0..Min(cd, max_depth)

(***************************************************************************)
(* absl::Symbolize(pc, out, out_size) when it succeeds: the name, cut to   *)
(* out_size - 1 characters and NUL-terminated, is written to out.          *)
(***************************************************************************)
Symbolize(pc, out, out_size) ==
  LET name == NameOf(pc)
      n == Min(Len(name), out_size - 1)
  IN [j \in 1..out_size |-> IF j <= n THEN name[j]
                            ELSE IF j = n + 1 THEN NUL ELSE out[j]]

\* std::memset(symbol, 0, max_len)
\* Mutant: the buffer is not zeroed.
memset_noop(buf, max_len) == buf

memset(buf, max_len) == [j \in 1..Len(buf) |-> IF j <= max_len THEN NUL ELSE buf[j]]

RECURSIVE strlen(_, _)
strlen(buf, from) ==
  IF from > Len(buf) \/ buf[from] = NUL THEN 0 ELSE 1 + strlen(buf, from + 1)

\* backtrace::Symbol::raw(): the characters of the buffer before its first NUL.
raw(buf) == SubSeq(buf, 1, strlen(buf, 1))

(***************************************************************************)
(* The locals of one trace() invocation. `resolved` records the Symbolize  *)
(* calls made, `calls` counts the callback's invocations begun and         *)
(* `visits` records what each invocation was given.                        *)
(***************************************************************************)
EmptyFrame == [symbol |-> None, ip |-> None, sp |-> None]

\* Line 73: `symbol` has automatic storage, so the invocation k (a thread and
\* a level) has a buffer of its own: the storage of k's buffer is k's.
\* Mutant: the buffer is static, one for all invocations.
symbol_storage_shared(k) == <<"main", "user">>

symbol_storage(k) == k

IdleTrace ==
  [pc |-> "idle", callback |-> [kind |-> "none"], cd |-> 0,
   ips |-> Filled(STX_MAX_STACK_FRAME_DEPTH, 0),
   sps |-> Filled(STX_MAX_STACK_FRAME_DEPTH, 0),
   ips_depth |-> 0, sps_depth |-> 0, depth |-> 0, i |-> 0,
   symbol |-> Filled(STX_SYMBOL_BUFFER_SIZE, NUL),
   frame |-> EmptyFrame, resolved |-> <<>>, calls |-> 0, visits |-> <<>>,
   ret |-> None]

\* The callbacks trace() is called with: a caller's visitor that asks to
\* stop on its stop_at-th invocation (0: never), and print_backtrace's.
UserVisitor(stop_at) == [kind |-> "user", stop_at |-> stop_at]
PrintVisitor == [kind |-> "print"]

\* What the callback returns on its n-th invocation.
callback_stop(cb, n) ==
  IF cb.kind = "user" THEN cb.stop_at = n ELSE FALSE

\* Lines 62-74: the two walks and the effective depth.
\* Mutant: the deeper of the two walks is taken.
trace_depth_max(ips_depth, sps_depth) ==
  IF ips_depth > sps_depth THEN ips_depth ELSE sps_depth

trace_depth(ips_depth, sps_depth) ==
  IF ips_depth > sps_depth THEN sps_depth ELSE ips_depth

trace_begin(t, cb, cd, n_ips, n_sps) ==
  [IdleTrace EXCEPT
     !.pc = "loop", !.callback = cb, !.cd = cd,
     !.ips = GetStackTrace(t, cd, STX_MAX_STACK_FRAME_DEPTH, n_ips),
     !.sps = GetStackFrames(t, cd, STX_MAX_STACK_FRAME_DEPTH, n_sps),
     !.ips_depth = n_ips, !.sps_depth = n_sps,
     !.depth = trace_depth(n_ips, n_sps)]

\* Lines 77-87, up to the callback's entry: the buffer is zeroed, the address
\* is resolved, the frame is built and handed to the callback. The frame's
\* symbol is a span over the invocation's buffer.
\* Mutant: the frame's stack pointer is left absent.
trace_resolve_nosp(r, found) ==
  LET zeroed == memset(r.symbol, STX_SYMBOL_BUFFER_SIZE)
      ip == r.ips[r.i + 1]
  IN [r EXCEPT
        !.pc = "call",
        !.symbol = IF found THEN Symbolize(ip, zeroed, STX_SYMBOL_BUFFER_SIZE)
                   ELSE zeroed,
        !.frame = [symbol |-> IF found THEN Some("symbol") ELSE None,
                   ip |-> Some(ip),
                   sp |-> None],
        !.resolved = Append(@, [i |-> r.i, ip |-> ip, found |-> found]),
        !.calls = @ + 1]

trace_resolve(r, found) ==
  LET zeroed == memset(r.symbol, STX_SYMBOL_BUFFER_SIZE)
      ip == r.ips[r.i + 1]
  IN [r EXCEPT
        !.pc = "call",
        !.symbol = IF found THEN Symbolize(ip, zeroed, STX_SYMBOL_BUFFER_SIZE)
                   ELSE zeroed,
        !.frame = [symbol |-> IF found THEN Some("symbol") ELSE None,
                   ip |-> Some(ip),
                   sp |-> Some(r.sps[r.i + 1])],
        !.resolved = Append(@, [i |-> r.i, ip |-> ip, found |-> found]),
        !.calls = @ + 1]

\* The frame as the callback reads it: the symbol's text is the buffer's
\* content at the time of the call.
FrameSeen(r) ==
  [symbol |-> IF r.frame.symbol.some THEN Some(raw(r.symbol)) ELSE None,
   ip |-> r.frame.ip, sp |-> r.frame.sp]

\* The number trace() passes to the callback with the frame of index i.
\* Mutant: the captured index counted from 1.
display_index_up(depth, i) == i + 1

display_index(depth, i) == depth - i

\* Line 87: the callback runs and returns; the loop goes on or breaks.
\* Mutant: the callback's answer is ignored.
trace_visit_nobreak(r) ==
  [r EXCEPT !.pc = "loop", !.i = @ + 1, !.frame = EmptyFrame,
            !.visits = Append(@, [frame |-> FrameSeen(r), i |-> r.i,
                                  index |-> display_index(r.depth, r.i)])]

\* Mutant: the loop steps over the index after the visited one.
trace_visit_skip(r) ==
  LET stop == callback_stop(r.callback, r.calls) IN
  [r EXCEPT !.pc = IF stop THEN "break" ELSE "loop",
            !.i = IF stop THEN @ ELSE @ + 2,
            !.frame = EmptyFrame,
            !.visits = Append(@, [frame |-> FrameSeen(r), i |-> r.i,
                                  index |-> display_index(r.depth, r.i)])]

trace_visit(r) ==
  LET stop == callback_stop(r.callback, r.calls) IN
  [r EXCEPT !.pc = IF stop THEN "break" ELSE "loop",
            !.i = IF stop THEN @ ELSE @ + 1,
            !.frame = EmptyFrame,
            !.visits = Append(@, [frame |-> FrameSeen(r), i |-> r.i,
                                  index |-> display_index(r.depth, r.i)])]

\* Line 90: the value returned.
\* Mutant: the number of frames visited is returned.
trace_return_visited(r) == [r EXCEPT !.pc = "done", !.ret = Some(Len(r.visits))]

trace_return(r) == [r EXCEPT !.pc = "done", !.ret = Some(r.depth)]

(***************************************************************************)
(* What print_backtrace and signal_handler write to stderr.                *)
(***************************************************************************)
Digit(d) ==
  <<"0", "1", "2", "3", "4", "5", "6", "7", "8", "9",
    "a", "b", "c", "d", "e", "f">>[d + 1]

\* printf's %d and %x of a number that is not negative.
RECURSIVE Digits(_, _)
Digits(n, base) ==
  IF n < base THEN <<Digit(n)>>
  ELSE Append(Digits(n \div base, base), Digit(n % base))

\* print_none's text.
Unknown == <<"<", "u", "n", "k", "n", "o", "w", "n", ">">>

\* Lines 102-128: the line print_backtrace's callback writes for a frame,
\* as the texts of its writes to stderr, in order.
\* Mutant: the stack pointer is written before the instruction pointer.
FrameLine_swapped(frame, i) ==
  [ev |-> "frame",
   writes |-> << (<<"#">> \o Digits(i, 10)) \o <<"\t", "\t">>,
                 IF frame.symbol.some THEN frame.symbol.val ELSE Unknown,
                 <<"\t", " ", "(", "i", "p", ":", " ", "0", "x">>,
                 IF frame.sp.some THEN Digits(frame.sp.val, 16) ELSE Unknown,
                 <<",", " ", "s", "p", ":", " ", "0", "x">>,
                 IF frame.ip.some THEN Digits(frame.ip.val, 16) ELSE Unknown,
                 <<")", "\n">> >>]

FrameLine(frame, i) ==
  [ev |-> "frame",
   writes |-> << (<<"#">> \o Digits(i, 10)) \o <<"\t", "\t">>,
                 IF frame.symbol.some THEN frame.symbol.val ELSE Unknown,
                 <<"\t", " ", "(", "i", "p", ":", " ", "0", "x">>,
                 IF frame.ip.some THEN Digits(frame.ip.val, 16) ELSE Unknown,
                 <<",", " ", "s", "p", ":", " ", "0", "x">>,
                 IF frame.sp.some THEN Digits(frame.sp.val, 16) ELSE Unknown,
                 <<")", "\n">> >>]

Preamble == [ev |-> "preamble"]
Newline == [ev |-> "newline"]
Banner == [ev |-> "banner"]

\* Lines 136-155: the diagnostic of a signal, none for any other signal.
\* Mutant: the SIGSEGV case has no break and falls into the SIGILL case.
Diagnostic_fallthrough(signal) ==
  CASE signal = SIGSEGV -> <<[ev |-> "diagnostic", text |-> "Received 'SIGSEGV' signal. Invalid memory access occurred (segmentation fault)."],
                             [ev |-> "diagnostic", text |-> "Received 'SIGILL' signal. Invalid program image (illegal/invalid instruction, i.e. nullptr dereferencing)."]>>
    [] signal = SIGILL  -> <<[ev |-> "diagnostic", text |-> "Received 'SIGILL' signal. Invalid program image (illegal/invalid instruction, i.e. nullptr dereferencing)."]>>
    [] signal = SIGFPE  -> <<[ev |-> "diagnostic", text |-> "Received 'SIGFPE' signal. Erroneous arithmetic operation (i.e. divide by zero)."]>>
    [] OTHER            -> <<>>

Diagnostic(signal) ==
  CASE signal = SIGSEGV -> <<[ev |-> "diagnostic", text |-> "Received 'SIGSEGV' signal. Invalid memory access occurred (segmentation fault)."]>>
    [] signal = SIGILL  -> <<[ev |-> "diagnostic", text |-> "Received 'SIGILL' signal. Invalid program image (illegal/invalid instruction, i.e. nullptr dereferencing)."]>>
    [] signal = SIGFPE  -> <<[ev |-> "diagnostic", text |-> "Received 'SIGFPE' signal. Erroneous arithmetic operation (i.e. divide by zero)."]>>
    [] OTHER            -> <<>>

(***************************************************************************)
(* SourceLocation (src/source_location/include/stx/source_location.h).     *)
(***************************************************************************)
\* The builtins STX_HAS_BUILTIN is asked for.
Builtins == {"FILE", "FUNCTION", "LINE", "COLUMN"}

\* Line 84: the default constructor.
SourceLocation == [line_ |-> 0, column_ |-> 0, file_ |-> "", func_ |-> ""]

\* Lines 52-74: the default arguments of current() at call site `site`,
\* `has` being the builtins the compiler has.
DefaultFile(has, site) == IF "FILE" \in has THEN site.file ELSE "unknown"
DefaultFunc(has, site) == IF "FUNCTION" \in has THEN site.func ELSE "unknown"
DefaultLine(has, site) == IF "LINE" \in has THEN site.line ELSE 0
DefaultColumn(has, site) == IF "COLUMN" \in has THEN site.column ELSE 0

\* Lines 76-81: the body of current().
\* Mutant: line and column are stored in each other's field.
current_swapped(file, func, line, column) ==
  [SourceLocation EXCEPT !.line_ = column, !.column_ = line,
                         !.file_ = file, !.func_ = func]

current(file, func, line, column) ==
  [SourceLocation EXCEPT !.line_ = line, !.column_ = column,
                         !.file_ = file, !.func_ = func]

\* Lines 86-96: the accessors.
column(loc) == loc.column_
line(loc) == loc.line_
file_name(loc) == loc.file_
function_name(loc) == loc.func_

\* No call of current() yet, on a compiler that has the builtins `has`.
NoLocation(has) ==
  [has |-> has, called |-> FALSE, site |-> [file |-> "", func |-> "", line |-> 0, column |-> 0],
   file |-> None, func |-> None, line |-> None, column |-> None,
   loc |-> SourceLocation]

\* The call sites of the model, and the explicit arguments (None: defaulted).
CallSites ==
  {[file |-> "main.cc", func |-> "main", line |-> 12, column |-> 3],
   [file |-> "option.h", func |-> "unwrap", line |-> 2147483647, column |-> 0]}
FileArgs == {None, Some("a.cc"), Some("")}
FuncArgs == {None, Some("f")}
LineArgs == {None, Some(0), Some(7), Some(2147483647)}
ColumnArgs == {None, Some(0), Some(9)}

(***************************************************************************)
(* Actions.                                                                *)
(***************************************************************************)
\* SourceLocation::current(...) is called at a call site, each argument
\* given or defaulted.
Current ==
  /\ \E site \in CallSites, file \in FileArgs, func \in FuncArgs,
        ln \in LineArgs, col \in ColumnArgs :
       srcloc' =
         [has |-> srcloc.has, called |-> TRUE, site |-> site,
          file |-> file, func |-> func, line |-> ln, column |-> col,
          loc |-> current(
                    IF file.some THEN file.val ELSE DefaultFile(srcloc.has, site),
                    IF func.some THEN func.val ELSE DefaultFunc(srcloc.has, site),
                    IF ln.some THEN ln.val ELSE DefaultLine(srcloc.has, site),
                    IF col.some THEN col.val ELSE DefaultColumn(srcloc.has, site))]
  /\ UNCHANGED <<disposition, sigcall, proc, hpc, hsig, err, tr>>

U(t) == <<t, "user">>
H(t) == <<t, "handler">>

\* Thread t, outside any handler and any trace, calls handle_signal(signal).
HandleSignal(t, signal) ==
  /\ proc = "running"
  /\ hpc[t] = "idle"
  /\ tr[U(t)].pc \in {"idle", "done"}
  /\ \E rejected \in BOOLEAN :
       LET r == handle_signal(disposition, signal, rejected) IN
       /\ disposition' = r.disp
       /\ sigcall' = [signal |-> signal, ret |-> r.ret, before |-> disposition,
                      rejected |-> rejected]
  /\ UNCHANGED <<srcloc, proc, hpc, hsig, err, tr>>

\* The call depths at which trace() is entered: from some caller at user
\* level; below print_backtrace, signal_handler and the faulted code in a
\* handler.
CallDepths(level) ==
  IF level = "user" THEN 1..MaxCallDepth ELSE 3..MaxCallDepth

\* The depths a walk of a stack of cd frames may report, `least` or more.
WalksFrom(cd, least) ==
  {n \in WalkDepths(cd, STX_MAX_STACK_FRAME_DEPTH) : n >= least}

\* Thread t calls trace(visitor) from its normal code: the visitor stops at
\* one of `stops`, the call is at one of the depths `cds`, and the walks
\* report `least` frames or more.
TraceBeginOf(t, stops, cds, least) ==
  /\ proc = "running"
  /\ hpc[t] = "idle"
  /\ tr[U(t)].pc \in {"idle", "done"}
  /\ \E stop_at \in stops, cd \in cds :
       \E n_ips \in WalksFrom(cd, least), n_sps \in WalksFrom(cd, least) :
         tr' = [tr EXCEPT ![U(t)] = trace_begin(t, UserVisitor(stop_at), cd, n_ips, n_sps)]
  /\ UNCHANGED <<srcloc, disposition, sigcall, proc, hpc, hsig, err>>

TraceBegin(t) ==
  TraceBeginOf(t, 0..STX_MAX_STACK_FRAME_DEPTH, CallDepths("user"), 0)

\* The locals of invocation k as its code reads them: the buffer's content
\* is what its storage holds.
Locals(k) == [tr[k] EXCEPT !.symbol = tr[symbol_storage(k)].symbol]

\* The locals r of invocation k written back, the buffer to its storage.
Stored(k, r) == [[tr EXCEPT ![k] = r] EXCEPT ![symbol_storage(k)].symbol = r.symbol]

\* The trace invocation thread t is running, if any.
Running(t, k) ==
  /\ proc = "running"
  /\ \/ k = U(t) /\ hpc[t] = "idle"
     \/ k = H(t) /\ hpc[t] = "trace"

\* One pass of the loop up to the callback's entry: lines 76-87.
TraceResolve(t, k) ==
  /\ Running(t, k)
  /\ tr[k].pc = "loop"
  /\ tr[k].i < tr[k].depth
  /\ \E found \in BOOLEAN : tr' = Stored(k, trace_resolve(Locals(k), found))
  /\ UNCHANGED <<srcloc, disposition, sigcall, proc, hpc, hsig, err>>

\* The callback's run and return, and the loop's step or break: line 87.
TraceVisit(t, k) ==
  /\ Running(t, k)
  /\ tr[k].pc = "call"
  /\ tr' = Stored(k, trace_visit(Locals(k)))
  /\ err' = IF tr[k].callback.kind = "print"
              THEN [err EXCEPT ![t] = Append(@, FrameLine(FrameSeen(Locals(k)),
                                      display_index(tr[k].depth, tr[k].i)))]
              ELSE err
  /\ UNCHANGED <<srcloc, disposition, sigcall, proc, hpc, hsig>>

\* The loop is left and trace() returns: lines 76, 87, 90.
TraceReturn(t, k) ==
  /\ Running(t, k)
  /\ \/ tr[k].pc = "loop" /\ tr[k].i >= tr[k].depth
     \/ tr[k].pc = "break"
  /\ tr' = [tr EXCEPT ![k] = trace_return(tr[k])]
  /\ UNCHANGED <<srcloc, disposition, sigcall, proc, hpc, hsig, err>>

\* A fault raises `signal` on thread t while signal_handler is its handler:
\* the OS calls signal_handler(signal) on that thread.
Fault(t, signal) ==
  /\ proc = "running"
  /\ hpc[t] = "idle"
  /\ disposition[signal] = SignalHandler
  /\ hpc' = [hpc EXCEPT ![t] = "entered"]
  /\ hsig' = [hsig EXCEPT ![t] = signal]
  /\ UNCHANGED <<srcloc, disposition, sigcall, proc, err, tr>>

\* signal_handler, lines 135-155.
HandlerDiagnostic(t) ==
  /\ proc = "running"
  /\ hpc[t] = "entered"
  /\ err' = [err EXCEPT ![t] = (@ \o <<Banner>>) \o Diagnostic(hsig[t])]
  /\ hpc' = [hpc EXCEPT ![t] = "print_backtrace"]
  /\ UNCHANGED <<srcloc, disposition, sigcall, proc, hsig, tr>>

\* print_backtrace, lines 96-101 and trace's 62-74: the preamble is written
\* and trace is called.
PrintBacktraceOf(t, cds, least) ==
  /\ proc = "running"
  /\ hpc[t] = "print_backtrace"
  /\ err' = [err EXCEPT ![t] = Append(@, Preamble)]
  /\ hpc' = [hpc EXCEPT ![t] = "trace"]
  /\ \E cd \in cds :
       \E n_ips \in WalksFrom(cd, least), n_sps \in WalksFrom(cd, least) :
         tr' = [tr EXCEPT ![H(t)] = trace_begin(t, PrintVisitor, cd, n_ips, n_sps)]
  /\ UNCHANGED <<srcloc, disposition, sigcall, proc, hsig>>

PrintBacktrace(t) == PrintBacktraceOf(t, CallDepths("handler"), 0)

\* print_backtrace, line 131, after trace returned.
PrintBacktraceEnd(t) ==
  /\ proc = "running"
  /\ hpc[t] = "trace"
  /\ tr[H(t)].pc = "done"
  /\ err' = [err EXCEPT ![t] = Append(@, Newline)]
  /\ hpc' = [hpc EXCEPT ![t] = "abort"]
  /\ UNCHANGED <<srcloc, disposition, sigcall, proc, hsig, tr>>

\* signal_handler, line 158: std::abort() ends the process.
\* Mutant: abort is called before print_backtrace.
AbortBeforeBacktrace(t) ==
  /\ proc = "running"
  /\ hpc[t] = "print_backtrace"
  /\ proc' = "aborted"
  /\ hpc' = [hpc EXCEPT ![t] = "aborted"]
  /\ UNCHANGED <<srcloc, disposition, sigcall, hsig, err, tr>>

\* Mutant: the handler returns to the faulted code instead of aborting.
AbortReturns(t) ==
  /\ proc = "running"
  /\ hpc[t] = "abort"
  /\ hpc' = [hpc EXCEPT ![t] = "idle"]
  /\ UNCHANGED <<srcloc, disposition, sigcall, proc, hsig, err, tr>>

Abort(t) ==
  /\ proc = "running"
  /\ hpc[t] = "abort"
  /\ proc' = "aborted"
  /\ hpc' = [hpc EXCEPT ![t] = "aborted"]
  /\ UNCHANGED <<srcloc, disposition, sigcall, hsig, err, tr>>

(***************************************************************************)
(* Specifications.                                                         *)
(***************************************************************************)
\* A process starts with every signal at its default, or ignored when the
\* parent had it ignored.
Init ==
  /\ srcloc = NoLocation(Builtins)
  /\ disposition \in [Signals -> {SIG_DFL, SIG_IGN}]
  /\ sigcall = [signal |-> 0, ret |-> NoResult, before |-> disposition,
                rejected |-> FALSE]
  /\ proc = "running"
  /\ hpc = [t \in Threads |-> "idle"]
  /\ hsig = [t \in Threads |-> 0]
  /\ err = [t \in Threads |-> <<>>]
  /\ tr = [k \in Threads \X Levels |-> IdleTrace]

\* The signal router: handle_signal calls of one thread.
NextSignal == \E signal \in Signals : HandleSignal("main", signal)

SpecSignal == Init /\ [][NextSignal]_vars

\* The frame sequence producer: trace() calls of one thread.
NextTrace ==
  \/ TraceBegin("main")
  \/ TraceResolve("main", U("main"))
  \/ TraceVisit("main", U("main"))
  \/ TraceReturn("main", U("main"))

InitDefault == Init /\ disposition = [s \in Signals |-> SIG_DFL]

SpecTrace == InitDefault /\ [][NextTrace]_vars

\* The fault path: registrations, then a fault and the handler's run.
Handler(t) ==
  \/ HandlerDiagnostic(t)
  \/ PrintBacktrace(t)
  \/ TraceResolve(t, H(t))
  \/ TraceVisit(t, H(t))
  \/ TraceReturn(t, H(t))
  \/ PrintBacktraceEnd(t)
  \/ Abort(t)

NextFault ==
  \/ \E signal \in Signals : HandleSignal("main", signal)
  \/ \E signal \in Signals : Fault("main", signal)
  \/ Handler("main")

SpecFault == InitDefault /\ [][NextFault]_vars

\* The handler runs on a thread the OS keeps scheduling.
SpecFaultLive == SpecFault /\ WF_vars(Handler("main"))

\* Traces at once: both threads call trace() from their code, and a fault on
\* main, after SIGSEGV was registered, runs the handler's trace while main's
\* own trace is suspended and the worker's goes on.
InitConc ==
  /\ srcloc = NoLocation(Builtins)
  /\ disposition = [s \in Signals |-> IF s = SIGSEGV THEN SignalHandler ELSE SIG_DFL]
  /\ sigcall = [signal |-> SIGSEGV, ret |-> Ok(SIG_DFL),
                before |-> [s \in Signals |-> SIG_DFL], rejected |-> FALSE]
  /\ proc = "running"
  /\ hpc = [t \in Threads |-> "idle"]
  /\ hsig = [t \in Threads |-> 0]
  /\ err = [t \in Threads |-> <<>>]
  /\ tr = [k \in Threads \X Levels |-> IdleTrace]

NextConc ==
  \/ TraceBeginOf("main", {0}, {2}, 1)
  \/ TraceBeginOf("worker", {0}, {MaxCallDepth}, STX_MAX_STACK_FRAME_DEPTH - 1)
  \/ \E t \in Threads : TraceResolve(t, U(t))
  \/ \E t \in Threads : TraceVisit(t, U(t))
  \/ \E t \in Threads : TraceReturn(t, U(t))
  \/ Fault("main", SIGSEGV)
  \/ HandlerDiagnostic("main")
  \/ PrintBacktraceOf("main", {MaxCallDepth}, STX_MAX_STACK_FRAME_DEPTH)
  \/ TraceResolve("main", H("main"))
  \/ TraceVisit("main", H("main"))
  \/ TraceReturn("main", H("main"))
  \/ PrintBacktraceEnd("main")
  \/ Abort("main")

SpecConc == InitConc /\ [][NextConc]_vars

\* SourceLocation::current calls, on a compiler with any set of the builtins.
InitLocation ==
  /\ srcloc \in {NoLocation(has) : has \in SUBSET Builtins}
  /\ disposition = [s \in Signals |-> SIG_DFL]
  /\ sigcall = [signal |-> 0, ret |-> NoResult, before |-> disposition,
                rejected |-> FALSE]
  /\ proc = "running"
  /\ hpc = [t \in Threads |-> "idle"]
  /\ hsig = [t \in Threads |-> 0]
  /\ err = [t \in Threads |-> <<>>]
  /\ tr = [k \in Threads \X Levels |-> IdleTrace]

NextLocation == Current

SpecLocation == InitLocation /\ [][NextLocation]_vars

(***************************************************************************)
(* The signal router's properties (SpecSignal). sigcall holds the last     *)
(* call, the dispositions it found and whether the OS rejected it.         *)
(***************************************************************************)
\* C1: handle_signal of a signal other than SIGSEGV, SIGILL and SIGFPE
\* returns Err(Unknown), whatever the OS would have answered, and leaves
\* the disposition of that signal and of every other signal as it was.
C1_UnknownInstallsNothing ==
  (sigcall.signal \in Signals /\ sigcall.signal \notin {SIGSEGV, SIGILL, SIGFPE})
    => /\ sigcall.ret = Err("Unknown")
       /\ \A s \in Signals : disposition[s] = sigcall.before[s]

C1_Witness ==
  /\ sigcall.signal = SIGTERM
  /\ sigcall.ret = Err("Unknown")
  /\ disposition[SIGTERM] = SIG_IGN
  /\ disposition[SIGINT] = SIG_DFL
  /\ disposition[SIGSEGV] = SignalHandler

\* C2: a handle_signal(S) of a supported S that finds S at the OS default
\* and is not rejected returns Ok(SIG_DFL), and S's disposition is then the
\* internal handler.
C2_FirstRegistration ==
  \A s \in {SIGSEGV, SIGILL, SIGFPE} :
    (sigcall.signal = s /\ sigcall.before[s] = SIG_DFL /\ ~sigcall.rejected)
      => /\ sigcall.ret = Ok(SIG_DFL)
         /\ disposition[s] = SignalHandler

C2_Witness ==
  /\ sigcall.signal = SIGFPE
  /\ sigcall.before = [s \in Signals |-> SIG_DFL]
  /\ sigcall.ret = Ok(SIG_DFL)
  /\ disposition[SIGFPE] = SignalHandler

\* C3: every successful handle_signal(S) returns the disposition S had
\* right before the call; so a call that follows a successful call for the
\* same S, and is not rejected, returns Ok(internal handler), not the
\* default.
C3_LastWriterWins ==
  [][ /\ sigcall'.ret.ok => sigcall'.ret.value = disposition[sigcall'.signal]
      /\ (sigcall.ret.ok /\ sigcall'.signal = sigcall.signal /\ ~sigcall'.rejected)
           => sigcall'.ret = Ok(SignalHandler) ]_vars

C3_Witness ==
  /\ sigcall.signal = SIGILL
  /\ sigcall.before[SIGILL] = SignalHandler
  /\ sigcall.ret = Ok(SignalHandler)
  /\ disposition[SIGILL] = SignalHandler

\* C4: a handle_signal(S) of a supported S that the OS rejects returns
\* Err(SigErr) and leaves S's disposition as it was.
C4_RejectedRegistration ==
  (sigcall.signal \in {SIGSEGV, SIGILL, SIGFPE} /\ sigcall.rejected)
    => /\ sigcall.ret = Err("SigErr")
       /\ disposition[sigcall.signal] = sigcall.before[sigcall.signal]

C4_Witness ==
  /\ sigcall.signal = SIGSEGV
  /\ sigcall.rejected
  /\ sigcall.ret = Err("SigErr")
  /\ sigcall.before[SIGSEGV] = SIG_IGN
  /\ disposition[SIGSEGV] = SIG_IGN

(***************************************************************************)
(* The fault handler's properties (SpecFault, SpecFaultLive).              *)
(***************************************************************************)
\* C5: what a handler invocation writes is in this order: the diagnostic of
\* the signal, the preamble, the frame lines; abort is called only when all
\* of a trace's frame lines are written, and nothing is written after it.
C5_HandlerOrder ==
  /\ \A t \in Threads :
       LET e == err[t]
           h == tr[H(t)]
       IN /\ hpc[t] \in {"idle", "entered"} => e = <<>>
          /\ Len(e) >= 1 => /\ e[1] = Banner
                            /\ Len(e) >= 2
                            /\ e[2].ev = "diagnostic"
          /\ Len(e) >= 3 => e[3] = Preamble
          /\ \A j \in 4..Len(e) :
               \/ e[j].ev = "frame" /\ j <= 3 + h.depth
               \/ e[j] = Newline /\ j = Len(e) /\ j = 4 + h.depth /\ h.pc = "done"
          /\ hpc[t] = "aborted" =>
               /\ Len(e) = 4 + h.depth
               /\ \A j \in 4..(3 + h.depth) : e[j].ev = "frame"
               /\ h.pc = "done"
  /\ proc = "aborted" => \E t \in Threads : hpc[t] = "aborted"

C5_Witness ==
  /\ proc = "aborted"
  /\ hpc["main"] = "aborted"
  /\ hsig["main"] = SIGSEGV
  /\ tr[H("main")].depth = 2
  /\ Len(err["main"]) = 6
  /\ err["main"][5].ev = "frame"

\* C6: once the handler is invoked the process reaches the aborted state;
\* the handler never returns to the code that faulted, and no step is taken
\* from the aborted state.
C6_HandlerTerminates ==
  /\ \A t \in Threads : (hpc[t] # "idle") ~> (proc = "aborted")
  /\ [][\A t \in Threads : hpc[t] # "idle" => hpc'[t] # "idle"]_vars
  /\ [][proc # "aborted"]_vars

C6_Witness ==
  /\ proc = "aborted"
  /\ hpc["main"] = "aborted"
  /\ tr[H("main")].depth = STX_MAX_STACK_FRAME_DEPTH
  /\ tr[H("main")].calls = STX_MAX_STACK_FRAME_DEPTH

(***************************************************************************)
(* The frame sequence producer's properties (SpecTrace).                   *)
(***************************************************************************)
\* Whether the visitor of invocation r asks to stop within the trace.
Stops(r) ==
  r.callback.kind = "user" /\ r.callback.stop_at \in 1..r.depth

\* C7: trace returns the effective depth of the captured stack whatever the
\* visitor answers: the lesser of the two walks' depths, also when the
\* visitor stops on its first invocation, which is then its only one.
C7_ReturnsEffectiveDepth ==
  \A k \in Threads \X Levels :
    LET r == tr[k] IN
    r.pc = "done" =>
      /\ r.ret = Some(Min(r.ips_depth, r.sps_depth))
      /\ (r.callback = UserVisitor(1) /\ r.ret.val >= 1)
           => r.calls = 1 /\ Len(r.visits) = 1

C7_Witness ==
  LET r == tr[U("main")] IN
  /\ r.pc = "done"
  /\ r.callback = UserVisitor(1)
  /\ r.ips_depth = STX_MAX_STACK_FRAME_DEPTH
  /\ r.sps_depth = STX_MAX_STACK_FRAME_DEPTH - 1
  /\ r.ret = Some(STX_MAX_STACK_FRAME_DEPTH - 1)
  /\ Len(r.visits) = 1

\* C8: the effective depth is the minimum of the two walks' depths, each at
\* most STX_MAX_STACK_FRAME_DEPTH; so whatever the call depth, trace returns
\* at most that bound and calls the visitor at most that many times.
C8_DepthBounded ==
  \A k \in Threads \X Levels :
    LET r == tr[k] IN
    r.pc # "idle" =>
      /\ r.ips_depth <= STX_MAX_STACK_FRAME_DEPTH
      /\ r.sps_depth <= STX_MAX_STACK_FRAME_DEPTH
      /\ r.depth <= r.ips_depth /\ r.depth <= r.sps_depth
      /\ r.depth \in {r.ips_depth, r.sps_depth}
      /\ r.depth <= STX_MAX_STACK_FRAME_DEPTH
      /\ r.calls <= STX_MAX_STACK_FRAME_DEPTH
      /\ Len(r.visits) <= STX_MAX_STACK_FRAME_DEPTH
      /\ r.ret.some => r.ret.val <= STX_MAX_STACK_FRAME_DEPTH

C8_Witness ==
  LET r == tr[U("main")] IN
  /\ r.cd > STX_MAX_STACK_FRAME_DEPTH
  /\ r.pc = "done"
  /\ r.ret = Some(STX_MAX_STACK_FRAME_DEPTH)
  /\ Len(r.visits) = STX_MAX_STACK_FRAME_DEPTH

\* C9 as stated: the frame of captured index 0 is given the lowest number,
\* 1, and the outermost captured frame the highest.
C9_InnermostLowest ==
  \A k \in Threads \X Levels :
    LET r == tr[k] IN
    \A a \in 1..Len(r.visits) :
      /\ r.visits[a].i = 0 => r.visits[a].index = 1
      /\ \A b \in 1..Len(r.visits) :
           r.visits[a].i < r.visits[b].i => r.visits[a].index < r.visits[b].index

\* C9, amended: the frame of captured index 0, the nearest to the trace
\* call, is given the highest number, the effective depth; the numbers fall
\* with the captured index, and the outermost captured frame is given the
\* lowest, 1.
C9_InnermostHighest ==
  \A k \in Threads \X Levels :
    LET r == tr[k] IN
    \A a \in 1..Len(r.visits) :
      /\ r.visits[a].i = 0 => r.visits[a].index = r.depth
      /\ r.visits[a].i = r.depth - 1 => r.visits[a].index = 1
      /\ r.visits[a].index >= 1
      /\ \A b \in 1..Len(r.visits) :
           r.visits[a].i < r.visits[b].i => r.visits[a].index > r.visits[b].index

C9_Witness ==
  LET r == tr[U("main")] IN
  /\ r.pc = "done"
  /\ r.depth = STX_MAX_STACK_FRAME_DEPTH
  /\ Len(r.visits) = r.depth
  /\ r.visits[1].i = 0 /\ r.visits[1].index = r.depth
  /\ r.visits[r.depth].i = r.depth - 1 /\ r.visits[r.depth].index = 1

\* C10: a resolution is attempted exactly when a visitor invocation begins;
\* once the visitor has asked to stop, on its k-th invocation, nothing more
\* is resolved or visited; a visitor that never stops is invoked once per
\* frame of the effective depth, not at all when that is 0.
C10_LazyEarlyStop ==
  \A k \in Threads \X Levels :
    LET r == tr[k] IN
    /\ Len(r.resolved) = r.calls
    /\ Len(r.visits) = IF r.pc = "call" THEN r.calls - 1 ELSE r.calls
    /\ \A a \in 1..Len(r.resolved) : r.resolved[a].i = a - 1
    /\ (Stops(r) /\ Len(r.visits) >= r.callback.stop_at)
         => /\ r.calls = r.callback.stop_at
            /\ r.pc \in {"break", "done"}
    /\ r.pc = "break" => Stops(r)
    /\ (r.pc = "done" /\ ~Stops(r)) => r.calls = r.depth
    /\ r.calls <= r.depth

C10_Witness ==
  LET r == tr[U("main")] IN
  /\ r.pc = "done"
  /\ r.callback = UserVisitor(2)
  /\ r.depth = 3
  /\ r.calls = 2
  /\ Len(r.resolved) = 2
  /\ Len(r.visits) = 2


(***************************************************************************)
(* Resolution failures and the reporter's lines (SpecFault).               *)
(***************************************************************************)
\* What a successful resolution of ip leaves in a zeroed buffer.
ResolvedText(ip) ==
  SubSeq(NameOf(ip), 1, Min(Len(NameOf(ip)), STX_SYMBOL_BUFFER_SIZE - 1))

\* C11: the buffer is zeroed before every resolution attempt, so after a
\* failed attempt it holds no text and after a successful one only that
\* frame's name; a frame whose resolution failed is delivered with no
\* symbol, the frames after it are still delivered, and the reporter's line
\* for it has the unknown marker as its symbol.
C11_FailureContained ==
  \A t \in Threads : \A l \in Levels :
    LET r == tr[<<t, l>>] IN
    /\ \A a \in 1..Len(r.resolved) :
         a = Len(r.resolved) =>
           r.symbol = [j \in 1..STX_SYMBOL_BUFFER_SIZE |->
                         IF r.resolved[a].found /\ j <= Len(ResolvedText(r.resolved[a].ip))
                           THEN ResolvedText(r.resolved[a].ip)[j] ELSE NUL]
    /\ \A a \in 1..Len(r.visits) :
         /\ r.visits[a].frame.symbol =
              IF r.resolved[a].found THEN Some(ResolvedText(r.resolved[a].ip)) ELSE None
         /\ (r.callback.kind = "print" /\ ~r.resolved[a].found)
              => err[t][3 + a].writes[2] = Unknown
         /\ (r.callback.kind = "print" /\ r.resolved[a].found)
              => err[t][3 + a].writes[2] = ResolvedText(r.resolved[a].ip)
    /\ (r.pc = "done" /\ r.callback.kind = "print") => Len(r.visits) = r.depth

C11_Witness ==
  LET r == tr[H("main")] IN
  /\ r.pc = "done"
  /\ r.depth = 3
  /\ Len(r.visits) = 3
  /\ r.resolved[1].found /\ ~r.resolved[2].found /\ r.resolved[3].found
  /\ r.visits[2].frame.symbol = None
  /\ err["main"][5].writes[2] = Unknown
  /\ err["main"][4].writes[2] # Unknown
  /\ err["main"][6].writes[2] # Unknown


\* The events of a thread's stderr that are frame lines.
FrameLines(e) == {j \in 1..Len(e) : e[j].ev = "frame"}

\* C12: print_backtrace writes the preamble first and then one line per
\* captured frame: its visitor never asks to stop, so when it returns the
\* frame lines are as many as the depth trace returned; each line holds the
\* frame number, then the symbol's text or the unknown marker, then the
\* instruction pointer, then the stack pointer.
C12_OneLinePerFrame ==
  \A t \in Threads :
    LET e == err[t]
        h == tr[H(t)]
    IN /\ h.pc # "break"
       /\ \A j \in FrameLines(e) : j > 3 /\ e[3] = Preamble
       /\ \A a \in 1..Len(h.visits) :
            LET w == e[3 + a].writes IN
            /\ e[3 + a].ev = "frame"
            /\ Len(w) = 7
            /\ w[1] = (<<"#">> \o Digits(h.depth - (a - 1), 10)) \o <<"\t", "\t">>
            /\ w[2] = IF h.resolved[a].found
                        THEN ResolvedText(h.ips[a]) ELSE Unknown
            /\ w[4] = Digits(h.ips[a], 16)
            /\ w[6] = Digits(h.sps[a], 16)
       /\ hpc[t] \in {"abort", "aborted"} =>
            /\ h.ret.some
            /\ Cardinality(FrameLines(e)) = h.ret.val
            /\ FrameLines(e) = 4..(3 + h.ret.val)

C12_Witness ==
  LET e == err["main"]
      h == tr[H("main")]
  IN /\ hpc["main"] = "aborted"
     /\ h.cd = 4
     /\ h.ret = Some(2)
     /\ Cardinality(FrameLines(e)) = 2
     /\ e[4].writes[1] = <<"#", "2", "\t", "\t">>
     /\ e[4].writes[2] = Unknown
     /\ e[4].writes[4] = <<"1", "4", "0">>
     /\ e[4].writes[6] = <<"1", "f", "8", "0">>
     /\ e[5].writes[1] = <<"#", "1", "\t", "\t">>
     /\ e[5].writes[4] = <<"1", "3", "0">>
     /\ e[5].writes[6] = <<"1", "f", "a", "0">>


(***************************************************************************)
(* More of the signal router's properties (SpecSignal).                    *)
(***************************************************************************)
\* C13: once a signal's disposition is the internal handler, no later
\* handle_signal call, for that or another signal, successful, rejected or
\* failing with Unknown, leaves it with another disposition.
C13_RegisteredAbsorbing ==
  [][\A s \in Signals :
       disposition[s] = SignalHandler => disposition'[s] = SignalHandler]_vars

C13_Witness ==
  /\ sigcall.signal = SIGSEGV
  /\ sigcall.rejected
  /\ sigcall.ret = Err("SigErr")
  /\ sigcall.before[SIGSEGV] = SignalHandler
  /\ disposition[SIGSEGV] = SignalHandler
  /\ disposition[SIGILL] = SignalHandler


(***************************************************************************)
(* SourceLocation's properties (SpecLocation).                             *)
(***************************************************************************)
\* Whether every argument of the last current() call was defaulted.
AllDefaulted ==
  /\ srcloc.called
  /\ ~srcloc.file.some /\ ~srcloc.func.some
  /\ ~srcloc.line.some /\ ~srcloc.column.some

\* The accessors of the last call's result return its explicit arguments.
ExplicitReturned ==
  /\ srcloc.file.some => file_name(srcloc.loc) = srcloc.file.val
  /\ srcloc.func.some => function_name(srcloc.loc) = srcloc.func.val
  /\ srcloc.line.some => line(srcloc.loc) = srcloc.line.val
  /\ srcloc.column.some => column(srcloc.loc) = srcloc.column.val

\* C14 as stated: with every argument defaulted and no builtin, file and
\* function are the empty text and line and column are zero; explicit
\* arguments are returned by the accessors.
C14_FallbackEmpty ==
  /\ (AllDefaulted /\ srcloc.has = {}) =>
       /\ file_name(srcloc.loc) = ""
       /\ function_name(srcloc.loc) = ""
       /\ line(srcloc.loc) = 0
       /\ column(srcloc.loc) = 0
  /\ ExplicitReturned

\* C14, amended: with every argument defaulted and no builtin, file and
\* function are the text "unknown" and line and column are zero; explicit
\* arguments are returned by the accessors.
C14_FallbackUnknown ==
  /\ (AllDefaulted /\ srcloc.has = {}) =>
       /\ file_name(srcloc.loc) = "unknown"
       /\ function_name(srcloc.loc) = "unknown"
       /\ line(srcloc.loc) = 0
       /\ column(srcloc.loc) = 0
  /\ ExplicitReturned

C14_Witness ==
  /\ AllDefaulted /\ srcloc.has = {}
  /\ srcloc.site.file = "main.cc" /\ srcloc.site.line = 12
  /\ file_name(srcloc.loc) = "unknown"
  /\ function_name(srcloc.loc) = "unknown"
  /\ line(srcloc.loc) = 0 /\ column(srcloc.loc) = 0


(***************************************************************************)
(* Traces at once (SpecConc).                                              *)
(***************************************************************************)
\* C15: traces running at once do not interfere. Every invocation's arrays
\* hold its own thread's stack; the frame a visitor is given has the address
\* of its captured index in that invocation and, as its symbol, the text
\* resolved for that address in that invocation (none when the resolution
\* failed); and an invocation that returned returned its own effective
\* depth, the lesser of its own two walks.
C15_NoInterference ==
  \A t \in Threads : \A l \in Levels :
    LET r == tr[<<t, l>>] IN
    /\ \A j \in 1..r.ips_depth : r.ips[j] = IpOf(t, r.cd - (j - 1))
    /\ \A j \in 1..r.sps_depth : r.sps[j] = SpOf(t, r.cd - (j - 1))
    /\ \A a \in 1..Len(r.visits) :
         LET v == r.visits[a]
             ip == r.ips[v.i + 1]
         IN /\ r.resolved[a].ip = ip
            /\ v.frame.ip = Some(ip)
            /\ v.frame.sp = Some(r.sps[v.i + 1])
            /\ v.frame.symbol =
                 IF r.resolved[a].found THEN Some(ResolvedText(ip)) ELSE None
    /\ r.pc = "done" => r.ret = Some(Min(r.ips_depth, r.sps_depth))

\* The worker's trace has returned its depth, one less than the capacity,
\* while main's own trace is suspended between a resolution and its
\* visitor's call and the handler's trace on main, of another depth, has
\* delivered resolved frames and resolved one more.
C15_Witness ==
  LET w == tr[U("worker")]
      m == tr[U("main")]
      h == tr[H("main")]
  IN /\ w.pc = "done" /\ w.ret = Some(STX_MAX_STACK_FRAME_DEPTH - 1)
     /\ Len(w.visits) = STX_MAX_STACK_FRAME_DEPTH - 1
     /\ w.resolved[1].found /\ w.resolved[2].found
     /\ w.visits[2].frame.symbol = Some(ResolvedText(w.ips[2]))
     /\ m.pc = "call" /\ m.frame.symbol.some
     /\ hpc["main"] = "trace"
     /\ h.pc = "call" /\ h.depth = STX_MAX_STACK_FRAME_DEPTH
     /\ Len(h.visits) >= 1 /\ h.resolved[1].found /\ h.frame.symbol.some
     /\ h.visits[1].frame.symbol = Some(ResolvedText(IpOf("main", h.cd)))


(***************************************************************************)
(* The order and content of the frames delivered (SpecTrace, SpecFault).   *)
(***************************************************************************)
\* C16: when the visitor never stops, its a-th invocation is given the frame
\* of captured index a - 1, built from that index of the two arrays, and the
\* number depth - (a - 1); so the numbers fall by one from depth to 1, no
\* index is skipped or visited twice, and the trace returns after depth
\* invocations.
C16_VisitsInOrder ==
  \A k \in Threads \X Levels :
    LET r == tr[k] IN
    ~Stops(r) =>
      /\ \A a \in 1..Len(r.visits) :
           /\ r.visits[a].i = a - 1
           /\ r.visits[a].index = r.depth - (a - 1)
           /\ r.visits[a].frame.ip = Some(r.ips[a])
           /\ r.visits[a].frame.sp = Some(r.sps[a])
           /\ a > 1 => r.visits[a].index = r.visits[a - 1].index - 1
      /\ r.pc = "done" =>
           /\ Len(r.visits) = r.depth
           /\ {r.visits[a].i : a \in 1..Len(r.visits)} = 0..(r.depth - 1)
           /\ {r.visits[a].index : a \in 1..Len(r.visits)} = 1..r.depth

C16_Witness ==
  LET r == tr[U("main")] IN
  /\ r.pc = "done"
  /\ r.callback = UserVisitor(0)
  /\ r.sps_depth = STX_MAX_STACK_FRAME_DEPTH
  /\ r.ips_depth = STX_MAX_STACK_FRAME_DEPTH - 1
  /\ Len(r.visits) = STX_MAX_STACK_FRAME_DEPTH - 1
  /\ r.visits[1].index = STX_MAX_STACK_FRAME_DEPTH - 1
  /\ r.visits[2].i = 1
  /\ r.visits[2].index = STX_MAX_STACK_FRAME_DEPTH - 2
  /\ r.visits[Len(r.visits)].index = 1

\* C17: every frame delivered has its instruction pointer and its stack
\* pointer present, both of the same captured index and so of the same
\* frame of the thread's stack, whether its symbol was resolved or not; the
\* reporter's lines have the two addresses in hexadecimal, never the unknown
\* marker.
C17_AddressesPresent ==
  \A t \in Threads : \A l \in Levels :
    LET r == tr[<<t, l>>] IN
    /\ \A a \in 1..Len(r.visits) :
         LET v == r.visits[a] IN
         /\ v.frame.ip.some /\ v.frame.sp.some
         /\ v.frame.ip.val = r.ips[v.i + 1]
         /\ v.frame.sp.val = r.sps[v.i + 1]
         /\ v.frame.ip.val = IpOf(t, r.cd - v.i)
         /\ v.frame.sp.val = SpOf(t, r.cd - v.i)
         /\ r.callback.kind = "print" =>
              /\ err[t][3 + a].writes[4] = Digits(r.ips[v.i + 1], 16)
              /\ err[t][3 + a].writes[6] = Digits(r.sps[v.i + 1], 16)
    /\ \A j \in FrameLines(err[t]) :
         err[t][j].writes[4] # Unknown /\ err[t][j].writes[6] # Unknown

C17_Witness ==
  LET r == tr[H("main")] IN
  /\ hpc["main"] = "trace"
  /\ r.ips_depth = 3 /\ r.sps_depth = 2
  /\ Len(r.visits) = 2
  /\ ~r.resolved[2].found
  /\ r.visits[2].frame =
       [symbol |-> None, ip |-> Some(r.ips[2]), sp |-> Some(r.sps[2])]
  /\ err["main"][5].writes[2] = Unknown
  /\ err["main"][5].writes[4] = Digits(IpOf("main", r.cd - 1), 16)
  /\ err["main"][5].writes[6] = Digits(SpOf("main", r.cd - 1), 16)

(***************************************************************************)
(* The dispositions handle_signal leaves alone, and the handler's          *)
(* diagnostic (SpecSignal, SpecFault).                                     *)
(***************************************************************************)
\* C18: a handle_signal(S) call, whatever it returns, leaves the disposition
\* of every signal other than S as it was before the call.
C18_OthersUntouched ==
  \A T \in Signals :
    T # sigcall.signal => disposition[T] = sigcall.before[T]

C18_Witness ==
  /\ sigcall.signal = SIGILL
  /\ sigcall.ret = Ok(SIG_IGN)
  /\ disposition[SIGILL] = SignalHandler
  /\ sigcall.before[SIGILL] = SIG_IGN
  /\ disposition[SIGFPE] = SignalHandler /\ sigcall.before[SIGFPE] = SignalHandler
  /\ disposition[SIGSEGV] = SIG_DFL /\ sigcall.before[SIGSEGV] = SIG_DFL
  /\ disposition[SIGINT] = SIG_IGN /\ sigcall.before[SIGINT] = SIG_IGN

\* The diagnostics a thread has written.
Diagnostics(e) == {j \in 1..Len(e) : e[j].ev = "diagnostic"}

\* C19: signal_handler is the disposition of SIGSEGV, SIGILL or SIGFPE only;
\* so the signal a handler run was entered with is one of the three, and
\* once past its switch the run has written exactly one diagnostic, the one
\* of that signal.
C19_OneDiagnostic ==
  /\ \A s \in Signals : disposition[s] = SignalHandler => s \in {SIGSEGV, SIGILL, SIGFPE}
  /\ \A t \in Threads :
       /\ hpc[t] # "idle" => hsig[t] \in {SIGSEGV, SIGILL, SIGFPE}
       /\ hpc[t] \in {"idle", "entered"} => Diagnostics(err[t]) = {}
       /\ hpc[t] \notin {"idle", "entered"} =>
            /\ Diagnostics(err[t]) = {2}
            /\ hsig[t] = SIGSEGV => err[t][2].text =
                 "Received 'SIGSEGV' signal. Invalid memory access occurred (segmentation fault)."
            /\ hsig[t] = SIGILL => err[t][2].text =
                 "Received 'SIGILL' signal. Invalid program image (illegal/invalid instruction, i.e. nullptr dereferencing)."
            /\ hsig[t] = SIGFPE => err[t][2].text =
                 "Received 'SIGFPE' signal. Erroneous arithmetic operation (i.e. divide by zero)."

C19_Witness ==
  /\ disposition[SIGSEGV] = SignalHandler
  /\ disposition[SIGFPE] = SignalHandler
  /\ hsig["main"] = SIGFPE
  /\ proc = "aborted"
  /\ Diagnostics(err["main"]) = {2}
  /\ err["main"][2].text =
       "Received 'SIGFPE' signal. Erroneous arithmetic operation (i.e. divide by zero)."

====
